---- MODULE Spec2Model ----
(***************************************************************************)
(* Chopsticks game engine (src/engine/game.js).                            *)
(*                                                                         *)
(* The engine's functions take a state OBJECT and return a new one.  The   *)
(* objects live in a store (heap): a sequence of objects, an address is an *)
(* index into it.  A game state is four objects, as in the source:         *)
(*   { current, hands }            the state object                        *)
(*   { player1, player2 }          the hands object                        *)
(*   { left, right }               one object per player                   *)
(* so that cloning, aliasing and in-place writes are what the code does.   *)
(***************************************************************************)
EXTENDS Integers, Sequences, FiniteSets, TLC

VARIABLES heap, state, call, ui

vars == <<heap, state, call, ui>>

(***************************************************************************)
(* Program constants and the bounds of the model.                          *)
(***************************************************************************)
\* newVal >= 5 ? 0 : newVal ; left >= 5 || right >= 5 ; a < 5 && b < 5
Threshold == 5

\* split values offered to applyMove range over MinSplitVal..MaxSplitVal
MaxSplitVal == 5
MinSplitVal == 0 - 1

PlayerNames == {"player1", "player2"}
HandNames == {"left", "right"}

\* the value of a property that is not there (also the key JS uses for it)
undefined == "undefined"

(***************************************************************************)
(* The object store.                                                       *)
(***************************************************************************)
\* obj.f for a property that may be absent
Prop(obj, f) == IF f \in DOMAIN obj THEN obj[f] ELSE undefined

\* state.hands[player] : the address of the player's {left, right} object
PlayerObj(h, s, player) == h[h[s].hands][player]

\* state.hands[player][hand]
Count(h, s, player, hand) == h[PlayerObj(h, s, player)][hand]

\* state.hands[player][hand] = v
SetCount(h, s, player, hand, v) ==
    [h EXCEPT ![PlayerObj(h, s, player)][hand] = v]

\* state.current = p
SetCurrent(h, s, p) == [h EXCEPT ![s].current = p]

\* the state object at address s read out as a value (field by field)
View(h, s) ==
    [current |-> h[s].current,
     hands |-> [p \in PlayerNames |->
                  [hd \in HandNames |-> Count(h, s, p, hd)]]]

\* a function's outcome: the store it leaves, and a value or an error
Return(h, v) == [heap |-> h, threw |-> FALSE, value |-> v, error |-> ""]
Throw(h, msg) == [heap |-> h, threw |-> TRUE, value |-> 0, error |-> msg]

\* the object literal { current, hands: { player1: {..}, player2: {..} } }
NewState(h, cur, l1, r1, l2, r2) ==
    LET n == Len(h)
    IN  Return(h \o << [left |-> l1, right |-> r1],
                       [left |-> l2, right |-> r2],
                       [player1 |-> n + 1, player2 |-> n + 2],
                       [current |-> cur, hands |-> n + 3] >>,
               n + 4)

\* the addresses an object holds
Refs(obj) ==
    IF "hands" \in DOMAIN obj THEN {obj.hands}
    ELSE IF "player1" \in DOMAIN obj THEN {obj.player1, obj.player2}
    ELSE {}

Reach1(h, R) == R \cup UNION {Refs(h[a]) : a \in R}

\* everything reachable from the roots (a state is three levels deep)
Reachable(h, roots) == Reach1(h, Reach1(h, roots))

Relocate(obj, to) ==
    IF "hands" \in DOMAIN obj THEN [obj EXCEPT !.hands = to[@]]
    ELSE IF "player1" \in DOMAIN obj
         THEN [player1 |-> to[obj.player1], player2 |-> to[obj.player2]]
         ELSE obj

\* garbage collection: keep what the root reaches, in allocation order;
\* gives the store and the root's address in it
Collect(h, root) ==
    LET R == Reachable(h, {root})
        live == SelectSeq([a \in 1..Len(h) |-> a], LAMBDA a : a \in R)
        to == [a \in R |-> CHOOSE i \in 1..Len(live) : live[i] = a]
    IN  [heap |-> [i \in 1..Len(live) |-> Relocate(h[live[i]], to)],
         value |-> to[root]]

(***************************************************************************)
(* The engine.                                                             *)
(***************************************************************************)
\* faulty variant: the game starts with player2 to move
createInitialStateSecond(h) == NewState(h, "player2", 1, 1, 1, 1)

createInitialState(h) == NewState(h, "player1", 1, 1, 1, 1)

\* faulty variant: player1's right hand copied from its left hand
cloneStateTypo(h, s) ==
    NewState(h, h[s].current,
             h[h[h[s].hands].player1].left, h[h[h[s].hands].player1].left,
             h[h[h[s].hands].player2].left, h[h[h[s].hands].player2].right)

\* faulty variant: no copy at all, the input itself is returned
cloneStateAlias(h, s) == Return(h, s)

\* faulty variant: a new state object that shares the input's hands
cloneStateShallow(h, s) ==
    Return(h \o << [current |-> h[s].current, hands |-> h[s].hands] >>,
           Len(h) + 1)

cloneState(h, s) ==
    NewState(h, h[s].current,
             h[h[h[s].hands].player1].left, h[h[h[s].hands].player1].right,
             h[h[h[s].hands].player2].left, h[h[h[s].hands].player2].right)

getCurrentPlayer(h, s) == h[s].current

getOpponent(player) == IF player = "player1" THEN "player2" ELSE "player1"

\* faulty variant: one dead hand is enough to have lost
hasLostEither(h, s, player) ==
    LET p == h[PlayerObj(h, s, player)]
    IN  p.left = 0 \/ p.right = 0

hasLost(h, s, player) ==
    LET p == h[PlayerObj(h, s, player)]
    IN  p.left = 0 /\ p.right = 0

isTerminal(h, s) == hasLost(h, s, "player1") \/ hasLost(h, s, "player2")

\* the "no winner" value
null == "null"

getWinner(h, s) ==
    IF hasLost(h, s, "player1") THEN "player2"
    ELSE IF hasLost(h, s, "player2") THEN "player1"
    ELSE null

\* faulty variant: the turn always goes to player2
switchTurnStuck(h, state0) ==
    LET c == cloneState(h, state0)
        s == c.value
    IN  Return(SetCurrent(c.heap, s, "player2"), s)

switchTurn(h, state0) ==
    LET c == cloneState(h, state0)
        s == c.value
    IN  Return(SetCurrent(c.heap, s, getOpponent(c.heap[s].current)), s)

\* faulty variant: a hand dies only above the threshold
wrapNewValAbove(newVal) == IF newVal > Threshold THEN 0 ELSE newVal

\* newVal >= 5 ? 0 : newVal
\* faulty variant: the fingers above the threshold stay on the hand
wrapNewValRollover(newVal) == newVal % Threshold

wrapNewVal(newVal) == IF newVal >= Threshold THEN 0 ELSE newVal

\* s.hands[player] is undefined for a key that is no player: reading a
\* property of it is a TypeError
isPlayerKey(h, s, player) == player \in DOMAIN h[h[s].hands]

\* faulty variant: the attack also passes the turn
applyAttackPassesTurn(h, state0, attackerPlayer, attackerHand, targetPlayer, targetHand) ==
    LET c == cloneState(h, state0)
        s == c.value
        h1 == c.heap
    IN  IF attackerHand \notin HandNames \/ targetHand \notin HandNames
        THEN Throw(h1, "Invalid hand name")
        ELSE IF ~isPlayerKey(h1, s, attackerPlayer)
        THEN Throw(h1, "TypeError")
        ELSE IF Count(h1, s, attackerPlayer, attackerHand) = 0
        THEN Throw(h1, "Cannot attack with a dead hand")
        ELSE IF ~isPlayerKey(h1, s, targetPlayer)
        THEN Throw(h1, "TypeError")
        ELSE IF Count(h1, s, targetPlayer, targetHand) = 0
        THEN Throw(h1, "Cannot target a dead hand")
        ELSE
          LET attackerVal == Count(h1, s, attackerPlayer, attackerHand)
              newVal == Count(h1, s, targetPlayer, targetHand) + attackerVal
          IN  Return(SetCurrent(SetCount(h1, s, targetPlayer, targetHand,
                                         wrapNewVal(newVal)),
                                s, getOpponent(h1[s].current)), s)

\* faulty variant: the attack without the test that the target hand is alive
applyAttackAnyTarget(h, state0, attackerPlayer, attackerHand, targetPlayer, targetHand) ==
    LET c == cloneState(h, state0)
        s == c.value
        h1 == c.heap
    IN  IF attackerHand \notin HandNames \/ targetHand \notin HandNames
        THEN Throw(h1, "Invalid hand name")
        ELSE IF ~isPlayerKey(h1, s, attackerPlayer)
        THEN Throw(h1, "TypeError")
        ELSE IF Count(h1, s, attackerPlayer, attackerHand) = 0
        THEN Throw(h1, "Cannot attack with a dead hand")
        ELSE IF ~isPlayerKey(h1, s, targetPlayer)
        THEN Throw(h1, "TypeError")
        ELSE
          LET attackerVal == Count(h1, s, attackerPlayer, attackerHand)
              newVal == Count(h1, s, targetPlayer, targetHand) + attackerVal
          IN  Return(SetCount(h1, s, targetPlayer, targetHand,
                              wrapNewVal(newVal)), s)

applyAttack(h, state0, attackerPlayer, attackerHand, targetPlayer, targetHand) ==
    LET c == cloneState(h, state0)
        s == c.value
        h1 == c.heap
    IN  IF attackerHand \notin HandNames \/ targetHand \notin HandNames
        THEN Throw(h1, "Invalid hand name")
        ELSE IF ~isPlayerKey(h1, s, attackerPlayer)
        THEN Throw(h1, "TypeError")
        ELSE IF Count(h1, s, attackerPlayer, attackerHand) = 0
        THEN Throw(h1, "Cannot attack with a dead hand")
        ELSE IF ~isPlayerKey(h1, s, targetPlayer)
        THEN Throw(h1, "TypeError")
        ELSE IF Count(h1, s, targetPlayer, targetHand) = 0
        THEN Throw(h1, "Cannot target a dead hand")
        ELSE
          LET attackerVal == Count(h1, s, attackerPlayer, attackerHand)
              newVal == Count(h1, s, targetPlayer, targetHand) + attackerVal
          IN  Return(SetCount(h1, s, targetPlayer, targetHand,
                              wrapNewVal(newVal)), s)

\* faulty variant: a single alive hand of value 1 may split (activeVal > 0)
canSplitStateFromOne(h, s, player) ==
    LET p == h[PlayerObj(h, s, player)]
        leftAlive == p.left > 0
        rightAlive == p.right > 0
        onlyOneAlive == leftAlive # rightAlive
        activeVal == IF leftAlive THEN p.left ELSE p.right
    IN  onlyOneAlive /\ activeVal > 0

canSplitState(h, s, player) ==
    LET p == h[PlayerObj(h, s, player)]
        leftAlive == p.left > 0
        rightAlive == p.right > 0
        onlyOneAlive == leftAlive # rightAlive
        activeVal == IF leftAlive THEN p.left ELSE p.right
    IN  onlyOneAlive /\ activeVal > 1

\* Number.isInteger; the split values offered below are all integers, so the
\* "must be integers" rejection is never taken in this model
isInteger(v) == v \in Int

\* faulty variant: the sum of the split values is not compared with the total
splitErrorAnySum(total, left, right) ==
    IF ~isInteger(left) \/ ~isInteger(right)
    THEN "Split values must be integers"
    ELSE IF ~(left >= 1 /\ right >= 1)
    THEN "Split values must be at least 1"
    ELSE IF left >= Threshold \/ right >= Threshold
    THEN "Split values must be less than 5"
    ELSE ""

\* faulty variant: a split value of 0 passes (left >= 0 && right >= 0)
splitErrorZeroPasses(total, left, right) ==
    IF ~isInteger(left) \/ ~isInteger(right)
    THEN "Split values must be integers"
    ELSE IF ~(left >= 0 /\ right >= 0)
    THEN "Split values must be at least 1"
    ELSE IF left + right # total
    THEN "Split values must sum to the original total"
    ELSE IF left >= Threshold \/ right >= Threshold
    THEN "Split values must be less than 5"
    ELSE ""

\* the checks of applySplit on its two numbers, in the code's order:
\* the error message, or "" when the numbers pass
splitError(total, left, right) ==
    IF ~isInteger(left) \/ ~isInteger(right)
    THEN "Split values must be integers"
    ELSE IF ~(left >= 1 /\ right >= 1)
    THEN "Split values must be at least 1"
    ELSE IF left + right # total
    THEN "Split values must sum to the original total"
    ELSE IF left >= Threshold \/ right >= Threshold
    THEN "Split values must be less than 5"
    ELSE ""

\* faulty variant: the split without the canSplitState test
applySplitUnguarded(h, state0, player, left, right) ==
    LET c == cloneState(h, state0)
        s == c.value
        h1 == c.heap
    IN  IF ~isPlayerKey(h1, s, player)
        THEN Throw(h1, "TypeError")
        ELSE
          LET p == h1[PlayerObj(h1, s, player)]
              total == p.left + p.right
              err == splitError(total, left, right)
          IN  IF err # ""
              THEN Throw(h1, err)
              ELSE Return(SetCount(SetCount(h1, s, player, "left", left),
                                   s, player, "right", right), s)

applySplit(h, state0, player, left, right) ==
    LET c == cloneState(h, state0)
        s == c.value
        h1 == c.heap
    IN  IF ~isPlayerKey(h1, s, player)
        THEN Throw(h1, "TypeError")
        ELSE IF ~canSplitState(h1, s, player)
        THEN Throw(h1, "Split not allowed in current state")
        ELSE
          LET p == h1[PlayerObj(h1, s, player)]
              total == p.left + p.right
              err == splitError(total, left, right)
          IN  IF err # ""
              THEN Throw(h1, err)
              ELSE Return(SetCount(SetCount(h1, s, player, "left", left),
                                   s, player, "right", right), s)

\* a move that is null (no object at all)
NullMove == [isNull |-> TRUE]

\* faulty variant: a missing acting player read as player1
orCurrentFirst(h, state0, v) == IF v = undefined THEN "player1" ELSE v

\* move.attackerPlayer || state.current ; move.player || state.current
orCurrent(h, state0, v) == IF v = undefined THEN h[state0].current ELSE v

\* faulty variant: a move of unknown type returns a copy of the state
applyMoveUnknownPasses(h, state0, move) ==
    IF move = NullMove \/ Prop(move, "type") = undefined
    THEN Throw(h, "Invalid move")
    ELSE IF move.type = "attack"
    THEN applyAttack(h, state0,
                     orCurrent(h, state0, Prop(move, "attackerPlayer")),
                     Prop(move, "attackerHand"),
                     Prop(move, "targetPlayer"),
                     Prop(move, "targetHand"))
    ELSE IF move.type = "split"
    THEN applySplit(h, state0,
                    orCurrent(h, state0, Prop(move, "player")),
                    move.left, move.right)
    ELSE cloneState(h, state0)

applyMove(h, state0, move) ==
    IF move = NullMove \/ Prop(move, "type") = undefined
    THEN Throw(h, "Invalid move")
    ELSE IF move.type = "attack"
    THEN applyAttack(h, state0,
                     orCurrent(h, state0, Prop(move, "attackerPlayer")),
                     Prop(move, "attackerHand"),
                     Prop(move, "targetPlayer"),
                     Prop(move, "targetHand"))
    ELSE IF move.type = "split"
    THEN applySplit(h, state0,
                    orCurrent(h, state0, Prop(move, "player")),
                    move.left, move.right)
    ELSE Throw(h, "Unknown move type")

attackMove(attackerPlayer, attackerHand, targetPlayer, targetHand) ==
    [type |-> "attack", attackerPlayer |-> attackerPlayer,
     attackerHand |-> attackerHand, targetPlayer |-> targetPlayer,
     targetHand |-> targetHand]

splitMove(player, left, right) ==
    [type |-> "split", player |-> player, left |-> left, right |-> right]

\* Game.attack(state, fromHand, toPlayer, toHand)
attack(h, state0, fromHand, toPlayer, toHand) ==
    applyMove(h, state0,
              attackMove(h[state0].current, fromHand, toPlayer, toHand))

\* Game.split(state, left, right)
split(h, state0, left, right) ==
    applyMove(h, state0, splitMove(h[state0].current, left, right))

\* ["left","right"].forEach(from => ["left","right"].forEach(to => ...))
FromTo == << <<"left", "left">>, <<"left", "right">>,
             <<"right", "left">>, <<"right", "right">> >>

\* faulty variant: the first loop without the test that the target hand is alive
opponentAttacksAnyTarget(h, s) ==
    LET current == h[s].current
        opponent == getOpponent(current)
        p == h[PlayerObj(h, s, current)]
        live(ft) == p[ft[1]] > 0
        pairs == SelectSeq(FromTo, live)
    IN  [i \in 1..Len(pairs) |->
            attackMove(current, pairs[i][1], opponent, pairs[i][2])]

\* first loop of getMoves: attacks on the opponent's hands
opponentAttacks(h, s) ==
    LET current == h[s].current
        opponent == getOpponent(current)
        p == h[PlayerObj(h, s, current)]
        o == h[PlayerObj(h, s, opponent)]
        live(ft) == p[ft[1]] > 0 /\ o[ft[2]] > 0
        pairs == SelectSeq(FromTo, live)
    IN  [i \in 1..Len(pairs) |->
            attackMove(current, pairs[i][1], opponent, pairs[i][2])]

\* from === "left" ? "right" : "left"
\* faulty variant: the self-attack aimed at the attacking hand
otherHandSame(from) == from

otherHand(from) == IF from = "left" THEN "right" ELSE "left"

\* second loop of getMoves: attacks on the player's own other hand
selfAttacks(h, s) ==
    LET current == h[s].current
        p == h[PlayerObj(h, s, current)]
        live(from) == p[from] > 0 /\ p[otherHand(from)] > 0
        froms == SelectSeq(<<"left", "right">>, live)
    IN  [i \in 1..Len(froms) |->
            attackMove(current, froms[i], current, otherHand(froms[i]))]

\* faulty variant: the split loop stopping one short (a < total - 1)
splitMovesShort(h, s) ==
    LET current == h[s].current
        p == h[PlayerObj(h, s, current)]
    IN  IF canSplitState(h, s, current)
        THEN LET total == p.left + p.right
                 ok(a) == a < Threshold /\ total - a < Threshold
                 as == SelectSeq([a \in 1..(total - 2) |-> a], ok)
             IN  [i \in 1..Len(as) |->
                    splitMove(current, as[i], total - as[i])]
        ELSE << >>

\* the split loop of getMoves
splitMoves(h, s) ==
    LET current == h[s].current
        p == h[PlayerObj(h, s, current)]
    IN  IF canSplitState(h, s, current)
        THEN LET total == p.left + p.right
                 ok(a) == a < Threshold /\ total - a < Threshold
                 as == SelectSeq([a \in 1..(total - 1) |-> a], ok)
             IN  [i \in 1..Len(as) |->
                    splitMove(current, as[i], total - as[i])]
        ELSE << >>

\* faulty variant: the attacks on the opponent left out
getMovesOwnOnly(h, s) == selfAttacks(h, s) \o splitMoves(h, s)

\* faulty variant: the self-attacks listed before the attacks on the opponent
getMovesSelfFirst(h, s) ==
    selfAttacks(h, s) \o opponentAttacks(h, s) \o splitMoves(h, s)

getMoves(h, s) == opponentAttacks(h, s) \o selfAttacks(h, s) \o splitMoves(h, s)

\* faulty variant: the right counter in slot 0
getBoardRightFirst(h, s) ==
    [current |-> h[s].current,
     p1 |-> << h[h[h[s].hands].player1].right, h[h[h[s].hands].player1].left >>,
     p2 |-> << h[h[h[s].hands].player2].right, h[h[h[s].hands].player2].left >>]

getBoard(h, s) ==
    [current |-> h[s].current,
     p1 |-> << h[h[h[s].hands].player1].left, h[h[h[s].hands].player1].right >>,
     p2 |-> << h[h[h[s].hands].player2].left, h[h[h[s].hands].player2].right >>]

(***************************************************************************)
(* The AI strategies (src/ai/ai.js).  A strategy that finds no move        *)
(* returns null, written NullMove here.  The outcomes of Math.random() are *)
(* parameters: pick is Math.floor(Math.random() * moves.length), and       *)
(* coins[i] is the value of Math.random() < 0.5 at the i-th move.          *)
(***************************************************************************)
\* faulty variant: the index rounded up (Math.ceil), one past the draw
randomMoveCeil(h, s, pick) ==
    LET moves == getMoves(h, s)
    IN  IF Len(moves) = 0 THEN NullMove
        ELSE IF pick + 2 \in DOMAIN moves THEN moves[pick + 2]
        ELSE NullMove

randomMove(h, s, pick) ==
    LET moves == getMoves(h, s)
    IN  IF Len(moves) = 0 THEN NullMove ELSE moves[pick + 1]

\* -Infinity: below every score
NegInfinity == 0 - 1000000

Abs(x) == IF x < 0 THEN 0 - x ELSE x

\* (x === 0) used as a number
Zero(x) == IF x = 0 THEN 1 ELSE 0

\* faulty variant: a winning move scored -10000
evaluateMoveSign(h, state0, move) ==
    LET me == h[state0].current
        opp == IF me = "player1" THEN "player2" ELSE "player1"
        r == applyMove(h, state0, move)
    IN  IF r.threw THEN NegInfinity
        ELSE IF getWinner(r.heap, r.value) = me THEN 0 - 10000
        ELSE
          LET o == r.heap[PlayerObj(r.heap, r.value, opp)]
              m == r.heap[PlayerObj(r.heap, r.value, me)]
              elimOpp == Zero(o.left) + Zero(o.right)
              elimMe == Zero(m.left) + Zero(m.right)
          IN  elimOpp * 50 - elimMe * 40 + (8 - (o.left + o.right))
              + (IF move.type = "split"
                 THEN 4 - Abs(move.left - move.right) ELSE 0)

evaluateMove(h, state0, move) ==
    LET me == h[state0].current
        opp == IF me = "player1" THEN "player2" ELSE "player1"
        r == applyMove(h, state0, move)
    IN  IF r.threw THEN NegInfinity
        ELSE IF getWinner(r.heap, r.value) = me THEN 10000
        ELSE
          LET o == r.heap[PlayerObj(r.heap, r.value, opp)]
              m == r.heap[PlayerObj(r.heap, r.value, me)]
              elimOpp == Zero(o.left) + Zero(o.right)
              elimMe == Zero(m.left) + Zero(m.right)
          IN  elimOpp * 50 - elimMe * 40 + (8 - (o.left + o.right))
              + (IF move.type = "split"
                 THEN 4 - Abs(move.left - move.right) ELSE 0)

\* evaluateMove(state, mv) of each move of the list
scoresOf(h, s, moves) ==
    [i \in 1..Len(moves) |-> evaluateMove(h, s, moves[i])]

\* the loop of greedyMove from the i-th move on; scores[i] is
\* evaluateMove(state, moves[i])
RECURSIVE greedyFrom(_, _, _, _, _, _)
greedyFrom(moves, scores, i, best, bestScore, coins) ==
    IF i > Len(moves) THEN best
    ELSE IF scores[i] > bestScore \/ (scores[i] = bestScore /\ coins[i])
    THEN greedyFrom(moves, scores, i + 1, moves[i], scores[i], coins)
    ELSE greedyFrom(moves, scores, i + 1, best, bestScore, coins)

\* greedyMove, given the list of moves and their scores
greedyChoice(moves, scores, coins) ==
    IF Len(moves) = 0 THEN NullMove
    ELSE greedyFrom(moves, scores, 1, moves[1], NegInfinity, coins)

greedyMove(h, s, coins) ==
    greedyChoice(getMoves(h, s), scoresOf(h, s, getMoves(h, s)), coins)

(***************************************************************************)
(* The callers.  `state` is the caller's variable holding the current      *)
(* state object (s in the headless loop, engineState in the UI); `call`    *)
(* records the last engine call as a test observes it: the input read      *)
(* field by field before and after the call, and what came back.           *)
(***************************************************************************)
Range(f) == {f[i] : i \in DOMAIN f}

\* hand names and player names handed to applyMove, valid and not
OfferedHands == HandNames \cup {"middle"}
SplitVals == MinSplitVal..MaxSplitVal

AttackMovesOffered ==
    {attackMove(ap, ah, tp, th) :
        ap \in PlayerNames, ah \in OfferedHands,
        tp \in PlayerNames, th \in OfferedHands}
    \cup {[type |-> "attack", attackerHand |-> ah,
           targetPlayer |-> tp, targetHand |-> th] :
        ah \in OfferedHands, tp \in PlayerNames, th \in OfferedHands}
    \cup {[type |-> "attack", attackerPlayer |-> ap,
           attackerHand |-> ah, targetHand |-> th] :
        ap \in PlayerNames, ah \in OfferedHands, th \in OfferedHands}

SplitMovesOffered ==
    {splitMove(p, l, r) : p \in PlayerNames, l \in SplitVals, r \in SplitVals}
    \cup {[type |-> "split", left |-> l, right |-> r] :
        l \in SplitVals, r \in SplitVals}

\* null, {} and { type: "unknown" }
MalformedMoves == {NullMove, << >>, [type |-> "unknown"]}

MovesOffered == AttackMovesOffered \cup SplitMovesOffered \cup MalformedMoves

NoState == << >>

\* s = Game.applyMove(s, move), the caller keeping s when the call throws
DoApplyMove(move) ==
    LET r == applyMove(heap, state, move)
        kept == Collect(r.heap, IF r.threw THEN state ELSE r.value)
    IN  /\ call' = [op |-> "applyMove",
                    move |-> move,
                    player |-> getCurrentPlayer(heap, state),
                    moves |-> getMoves(heap, state),
                    before |-> View(heap, state),
                    after |-> View(r.heap, state),
                    threw |-> r.threw,
                    error |-> r.error,
                    result |-> IF r.threw THEN NoState
                               ELSE View(r.heap, r.value),
                    ret |-> FALSE]
        /\ heap' = kept.heap
        /\ state' = kept.value
        /\ UNCHANGED ui

\* s = Game.switchTurn(s)
DoSwitchTurn ==
    LET r == switchTurn(heap, state)
        kept == Collect(r.heap, r.value)
    IN  /\ call' = [op |-> "switchTurn",
                    move |-> << >>,
                    player |-> getCurrentPlayer(heap, state),
                    moves |-> getMoves(heap, state),
                    before |-> View(heap, state),
                    after |-> View(r.heap, state),
                    threw |-> r.threw,
                    error |-> r.error,
                    result |-> View(r.heap, r.value),
                    ret |-> FALSE]
        /\ heap' = kept.heap
        /\ state' = kept.value
        /\ UNCHANGED ui

\* Game.canSplitState(s, player)
DoCanSplitState(player) ==
    /\ call' = [op |-> "canSplitState",
                move |-> << >>,
                player |-> player,
                moves |-> getMoves(heap, state),
                before |-> View(heap, state),
                after |-> View(heap, state),
                threw |-> FALSE,
                error |-> "",
                result |-> NoState,
                ret |-> canSplitState(heap, state, player)]
    /\ UNCHANGED <<heap, state, ui>>

\* a call that only reads the state: Game.getMoves(s), Game.hasLost(s, p), ...
Observe(op, player, ret) ==
    /\ call' = [op |-> op,
                move |-> << >>,
                player |-> player,
                moves |-> getMoves(heap, state),
                before |-> View(heap, state),
                after |-> View(heap, state),
                threw |-> FALSE,
                error |-> "",
                result |-> NoState,
                ret |-> ret]
    /\ UNCHANGED <<heap, state, ui>>

DoGetMoves ==
    Observe("getMoves", getCurrentPlayer(heap, state), getMoves(heap, state))

DoHasLost(player) == Observe("hasLost", player, hasLost(heap, state, player))

DoIsTerminal ==
    Observe("isTerminal", getCurrentPlayer(heap, state), isTerminal(heap, state))

DoGetWinner ==
    Observe("getWinner", getCurrentPlayer(heap, state), getWinner(heap, state))

DoGetBoard ==
    Observe("getBoard", getCurrentPlayer(heap, state), getBoard(heap, state))

\* Game.cloneState(s); ret tells whether the copy is a new object
DoCloneState ==
    LET r == cloneState(heap, state)
    IN  /\ call' = [op |-> "cloneState",
                    move |-> << >>,
                    player |-> getCurrentPlayer(heap, state),
                    moves |-> getMoves(heap, state),
                    before |-> View(heap, state),
                    after |-> View(r.heap, state),
                    threw |-> r.threw,
                    error |-> r.error,
                    result |-> View(r.heap, r.value),
                    ret |-> r.value # state]
        /\ UNCHANGED <<heap, state, ui>>

\* an assignment to one object: obj.current = the other player, or
\* obj.hands[player][hand] = another count
Write(h, obj, field, player, hand) ==
    IF field = "current"
    THEN SetCurrent(h, obj, getOpponent(h[obj].current))
    ELSE SetCount(h, obj, player, hand,
                  (Count(h, obj, player, hand) + 1) % Threshold)

\* c1 = Game.cloneState(s); c2 = Game.cloneState(c1); then one of the three
\* objects is written. ret holds the three objects read before and after
\* the write.
CloneTwiceThenWrite(copy, field, player, hand) ==
    LET c1 == cloneState(heap, state)
        c2 == cloneState(c1.heap, c1.value)
        objs == <<state, c1.value, c2.value>>
        h3 == Write(c2.heap, objs[copy], field, player, hand)
        kept == Collect(h3, state)
    IN  /\ call' = [op |-> "cloneThenWrite",
                    move |-> << >>,
                    player |-> getCurrentPlayer(heap, state),
                    moves |-> getMoves(heap, state),
                    before |-> View(heap, state),
                    after |-> View(h3, state),
                    threw |-> FALSE,
                    error |-> "",
                    result |-> View(c1.heap, c1.value),
                    ret |-> [written |-> copy,
                             copies |-> [i \in 1..3 |-> View(c2.heap, objs[i])],
                             later |-> [i \in 1..3 |-> View(h3, objs[i])]]]
        /\ heap' = kept.heap
        /\ state' = kept.value
        /\ UNCHANGED ui

\* obj.hands[player][hand] = another count
DoCloneWriteCount(copy, player, hand) ==
    CloneTwiceThenWrite(copy, "count", player, hand)

\* obj.current = the other player
DoCloneWriteCurrent(copy) ==
    CloneTwiceThenWrite(copy, "current", "player1", "left")

\* s = Game.switchTurn(s); s = Game.switchTurn(s); ret is the state between
DoSwitchTurnTwice ==
    LET r1 == switchTurn(heap, state)
        r2 == switchTurn(r1.heap, r1.value)
        kept == Collect(r2.heap, r2.value)
    IN  /\ call' = [op |-> "switchTurnTwice",
                    move |-> << >>,
                    player |-> getCurrentPlayer(heap, state),
                    moves |-> getMoves(heap, state),
                    before |-> View(heap, state),
                    after |-> View(r2.heap, state),
                    threw |-> r2.threw,
                    error |-> r2.error,
                    result |-> View(r2.heap, r2.value),
                    ret |-> View(r1.heap, r1.value)]
        /\ heap' = kept.heap
        /\ state' = kept.value
        /\ UNCHANGED ui

\* a call through a wrapper: args holds the arguments as a move without
\* its acting player, r is the outcome
Wrapped(op, args, r) ==
    LET kept == Collect(r.heap, IF r.threw THEN state ELSE r.value)
    IN  /\ call' = [op |-> op,
                    move |-> args,
                    player |-> getCurrentPlayer(heap, state),
                    moves |-> getMoves(heap, state),
                    before |-> View(heap, state),
                    after |-> View(r.heap, state),
                    threw |-> r.threw,
                    error |-> r.error,
                    result |-> IF r.threw THEN NoState
                               ELSE View(r.heap, r.value),
                    ret |-> FALSE]
        /\ heap' = kept.heap
        /\ state' = kept.value
        /\ UNCHANGED ui

\* s = Game.attack(s, fromHand, toPlayer, toHand)
DoAttack(fromHand, toPlayer, toHand) ==
    Wrapped("attack",
            [type |-> "attack", attackerHand |-> fromHand,
             targetPlayer |-> toPlayer, targetHand |-> toHand],
            attack(heap, state, fromHand, toPlayer, toHand))

\* s = Game.split(s, left, right)
DoSplit(left, right) ==
    Wrapped("split",
            [type |-> "split", left |-> left, right |-> right],
            split(heap, state, left, right))

\* s = Game.createInitialState(); ret tells what isTerminal and getWinner
\* say of the new state
DoCreateInitialState ==
    LET r == createInitialState(heap)
        kept == Collect(r.heap, r.value)
    IN  /\ call' = [op |-> "createInitialState",
                    move |-> << >>,
                    player |-> getCurrentPlayer(heap, state),
                    moves |-> getMoves(heap, state),
                    before |-> View(heap, state),
                    after |-> View(r.heap, state),
                    threw |-> r.threw,
                    error |-> r.error,
                    result |-> View(r.heap, r.value),
                    ret |-> [terminal |-> isTerminal(r.heap, r.value),
                             winner |-> getWinner(r.heap, r.value)]]
        /\ heap' = kept.heap
        /\ state' = kept.value
        /\ UNCHANGED ui

\* mv = AI.randomMove(s)
DoRandomMove(pick) ==
    Observe("randomMove", getCurrentPlayer(heap, state),
            randomMove(heap, state, pick))

\* mv = AI.greedyMove(s)
DoGreedyMove(move) ==
    Observe("greedyMove", getCurrentPlayer(heap, state), move)

\* the engine called from a test or a script: no page
Headless ==
    [screen |-> "none", aiAgent |-> "none", selectedHand |-> "none",
     bound |-> FALSE, modal |-> FALSE, pending |-> 0, logging |-> FALSE,
     fullHistory |-> << >>, recentMoves |-> << >>]

NoCall(h, s) ==
    [op |-> "none", move |-> << >>, player |-> h[s].current, moves |-> getMoves(h, s),
     before |-> View(h, s), after |-> View(h, s), threw |-> FALSE,
     error |-> "", result |-> NoState, ret |-> FALSE]

\* a game: let s = Game.createInitialState(), then moves drawn from
\* Game.getMoves(s) and turn switches, in any order
Init ==
    LET r == createInitialState(<< >>)
    IN  /\ heap = r.heap
        /\ state = r.value
        /\ call = NoCall(r.heap, r.value)
        /\ ui = Headless

Play == \E move \in Range(getMoves(heap, state)) : DoApplyMove(move)

Next == Play \/ DoSwitchTurn

Spec == Init /\ [][Next]_vars

\* any state with counters below the threshold (tests build them by
\* writing the fields), and any call on it
Counters == 0..(Threshold - 1)

InitAny ==
    \E cur \in PlayerNames, l1 \in Counters, r1 \in Counters,
       l2 \in Counters, r2 \in Counters :
        LET r == NewState(<< >>, cur, l1, r1, l2, r2)
        IN  /\ heap = r.heap
            /\ state = r.value
            /\ call = NoCall(r.heap, r.value)
            /\ ui = Headless

\* each behaviour makes one call on the state it starts with
Fresh == call.op = "none"

Offer == Fresh /\ \E move \in MovesOffered : DoApplyMove(move)

Flip == Fresh /\ DoSwitchTurn

Ask == Fresh /\ \E player \in PlayerNames : DoCanSplitState(player)

Enumerate == Fresh /\ DoGetMoves

AskLost == Fresh /\ \E player \in PlayerNames : DoHasLost(player)

AskTerminal == Fresh /\ DoIsTerminal

AskWinner == Fresh /\ DoGetWinner

Board == Fresh /\ DoGetBoard

Copy == Fresh /\ DoCloneState

CopyWriteCount ==
    Fresh /\ \E copy \in 1..3, player \in PlayerNames, hand \in HandNames :
                DoCloneWriteCount(copy, player, hand)

CopyWriteCurrent == Fresh /\ \E copy \in 1..3 : DoCloneWriteCurrent(copy)

FlipTwice == Fresh /\ DoSwitchTurnTwice

Create == Fresh /\ DoCreateInitialState

NextAny ==
    \/ Offer \/ Flip \/ Ask
    \/ Enumerate \/ AskLost \/ AskTerminal \/ AskWinner \/ Board
    \/ Copy \/ CopyWriteCount \/ CopyWriteCurrent \/ FlipTwice
    \/ Create

SpecAny == InitAny /\ [][NextAny]_vars

\* the attack and split moves that leave their acting player out
DefaultedMoves ==
    {m \in AttackMovesOffered : "attackerPlayer" \notin DOMAIN m}
    \cup {m \in SplitMovesOffered : "player" \notin DOMAIN m}

\* any state, and one call that leaves the acting player to the engine:
\* applyMove of a move without one, or a wrapper
OfferDefaulted == Fresh /\ \E move \in DefaultedMoves : DoApplyMove(move)

WrapAttack ==
    Fresh /\ \E fromHand \in OfferedHands, toPlayer \in PlayerNames,
                toHand \in OfferedHands :
                DoAttack(fromHand, toPlayer, toHand)

WrapSplit == Fresh /\ \E left \in SplitVals, right \in SplitVals :
                        DoSplit(left, right)

NextWrap == OfferDefaulted \/ WrapAttack \/ WrapSplit

SpecWrap == InitAny /\ [][NextWrap]_vars

\* any state, and one call of a strategy on it, for every outcome of its
\* random draws
RandomPick ==
    Fresh /\ LET n == Len(getMoves(heap, state))
             IN  \E pick \in 0..(IF n = 0 THEN 0 ELSE n - 1) :
                    DoRandomMove(pick)

GreedyPick ==
    /\ Fresh
    /\ LET moves == getMoves(heap, state)
           scores == scoresOf(heap, state, moves)
       IN  \E coins \in [1..Len(moves) -> BOOLEAN] :
              DoGreedyMove(greedyChoice(moves, scores, coins))

NextAI == RandomPick \/ GreedyPick

SpecAI == InitAny /\ [][NextAI]_vars

(***************************************************************************)
(* Vocabulary of the properties: the last call, read from `call`.          *)
(***************************************************************************)
Applied == call.op = "applyMove"
Accepted == Applied /\ ~call.threw
Rejected == Applied /\ call.threw /\ call.result = NoState
IsAttack == Applied /\ Prop(call.move, "type") = "attack"
IsSplit == Applied /\ Prop(call.move, "type") = "split"

\* the player the move acts for: the one it names, else state.current
Actor ==
    IF IsAttack
    THEN IF "attackerPlayer" \in DOMAIN call.move
         THEN call.move.attackerPlayer ELSE call.before.current
    ELSE IF "player" \in DOMAIN call.move
         THEN call.move.player ELSE call.before.current

\* the move with its acting player written out
Explicit ==
    IF IsAttack
    THEN attackMove(Actor, Prop(call.move, "attackerHand"),
                    Prop(call.move, "targetPlayer"),
                    Prop(call.move, "targetHand"))
    ELSE splitMove(Actor, call.move.left, call.move.right)

Listed == Applied /\ call.move \in Range(call.moves)

Before(p, hd) == call.before.hands[p][hd]
Result(p, hd) == call.result.hands[p][hd]

\* an attack that names two hands of two players (valid names)
WellFormedAttack ==
    /\ IsAttack
    /\ Prop(call.move, "attackerHand") \in HandNames
    /\ Prop(call.move, "targetHand") \in HandNames
    /\ Prop(call.move, "targetPlayer") \in PlayerNames

AttackerCount == Before(Actor, call.move.attackerHand)
TargetCount == Before(call.move.targetPlayer, call.move.targetHand)

\* a hand attacking itself
OnItself ==
    /\ WellFormedAttack
    /\ call.move.targetPlayer = Actor
    /\ call.move.targetHand = call.move.attackerHand

LostBefore(p) == Before(p, "left") = 0 /\ Before(p, "right") = 0

(***************************************************************************)
(* Properties.                                                             *)
(***************************************************************************)
\* C1: every move that getMoves(state) returns is accepted by
\* applyMove(state, move): it returns a state and does not throw; for every
\* state with counters in 0..4, terminal states included.
C1_GeneratedMovesAccepted ==
    Listed => (~call.threw /\ call.result # NoState)

\* C1 witness: a generated move applied and accepted in a terminal state
C1_Witness ==
    /\ Listed /\ Accepted
    /\ LostBefore(getOpponent(call.before.current))

\* C2 as stated: the moves applyMove accepts are exactly the moves of
\* getMoves(state) (an omitted acting player read as state.current).
C2_Exact ==
    (WellFormedAttack \/ IsSplit) =>
        (Accepted <=> Explicit \in Range(call.moves))

\* C2 amended: getMoves(state) is exactly the set of accepted moves whose
\* acting player is state.current and that are not an attack of a hand on
\* itself.
C2_ExactForCurrent ==
    (WellFormedAttack \/ IsSplit) =>
        (Explicit \in Range(call.moves)
            <=> (Accepted /\ Actor = call.before.current /\ ~OnItself))

\* C2 witness: the last split of the enumeration, named without its
\* player, is accepted
C2_Witness ==
    /\ IsSplit /\ Accepted
    /\ "player" \notin DOMAIN call.move
    /\ call.move.right = 1
    /\ Explicit \in Range(call.moves)

\* C3: in every state reached from createInitialState() by moves of
\* getMoves and turn switches, each counter is in 0..4 and current is one
\* of the two players.
C3_CountersInRange ==
    /\ getCurrentPlayer(heap, state) \in PlayerNames
    /\ \A p \in PlayerNames, hd \in HandNames :
          Count(heap, state, p, hd) \in 0..4

\* C3 witness: an attack that would make 5 or more has left the hand at 0
C3_Witness ==
    /\ IsAttack /\ Accepted
    /\ AttackerCount + TargetCount >= 5
    /\ Count(heap, state, call.move.targetPlayer, call.move.targetHand) = 0

\* C4: an accepted attack has attacker count a > 0 and target count t > 0
\* and leaves the target hand at t + a when t + a < 5, at 0 otherwise; the
\* target may be the attacker's own other hand.
C4_AttackEffect ==
    (IsAttack /\ Accepted) =>
        /\ WellFormedAttack
        /\ AttackerCount > 0
        /\ TargetCount > 0
        /\ Result(call.move.targetPlayer, call.move.targetHand)
             = IF TargetCount + AttackerCount < 5
               THEN TargetCount + AttackerCount ELSE 0

\* C4 witness: a self-attack whose sum is exactly 5 kills the other hand
C4_Witness ==
    /\ IsAttack /\ Accepted
    /\ call.move.targetPlayer = Actor
    /\ call.move.targetHand # call.move.attackerHand
    /\ TargetCount + AttackerCount = 5
    /\ Result(call.move.targetPlayer, call.move.targetHand) = 0

\* C5 as stated: an accepted attack leaves the attacking hand's count, every
\* counter other than the target hand, and current unchanged.
C5_AttackFrame ==
    (IsAttack /\ Accepted) =>
        /\ Result(Actor, call.move.attackerHand) = AttackerCount
        /\ \A p \in PlayerNames, hd \in HandNames :
              <<p, hd>> # <<call.move.targetPlayer, call.move.targetHand>>
                  => Result(p, hd) = Before(p, hd)
        /\ call.result.current = call.before.current

\* C5 amended: an accepted attack leaves every counter other than the target
\* hand and current unchanged; the attacking hand's count is unchanged
\* unless the attack targets the attacking hand itself.
C5_AttackFrameOffTarget ==
    (IsAttack /\ Accepted) =>
        /\ ~OnItself => Result(Actor, call.move.attackerHand) = AttackerCount
        /\ \A p \in PlayerNames, hd \in HandNames :
              <<p, hd>> # <<call.move.targetPlayer, call.move.targetHand>>
                  => Result(p, hd) = Before(p, hd)
        /\ call.result.current = call.before.current

\* C5 witness: an attack on the opponent changed the target hand only
C5_Witness ==
    /\ IsAttack /\ Accepted
    /\ call.move.targetPlayer # Actor
    /\ Result(call.move.targetPlayer, call.move.targetHand) # TargetCount
    /\ Result(Actor, call.move.attackerHand) = AttackerCount
    /\ call.result.current = call.before.current

\* C6: an attack whose attacking hand has count 0 is rejected whatever the
\* target, and one whose target hand has count 0 is rejected whatever the
\* attacker: applyMove throws, gives no state, and the input is unchanged.
C6_DeadHandRejected ==
    (/\ IsAttack
     /\ \/ /\ Prop(call.move, "attackerHand") \in HandNames
            /\ AttackerCount = 0
        \/ /\ Prop(call.move, "targetHand") \in HandNames
            /\ Prop(call.move, "targetPlayer") \in PlayerNames
            /\ TargetCount = 0)
        => (Rejected /\ call.after = call.before)

\* C6 witness: an alive hand attacking a dead hand was rejected
C6_Witness ==
    /\ WellFormedAttack
    /\ AttackerCount > 0
    /\ TargetCount = 0
    /\ Rejected
    /\ call.error = "Cannot target a dead hand"

\* C7: in an accepted move a count goes from nonzero to 0 only as the
\* target of an attack whose sum is >= 5, and from 0 to nonzero only by a
\* split of its owner's hands.
C7_DeathAndRevivalCauses ==
    Accepted =>
        \A p \in PlayerNames, hd \in HandNames :
          /\ (Before(p, hd) # 0 /\ Result(p, hd) = 0) =>
                /\ WellFormedAttack
                /\ call.move.targetPlayer = p
                /\ call.move.targetHand = hd
                /\ TargetCount + AttackerCount >= 5
          /\ (Before(p, hd) = 0 /\ Result(p, hd) # 0) =>
                (IsSplit /\ Actor = p)

\* C7 witness: a split of (0, 4) into (2, 2) revived the left hand
C7_Witness ==
    /\ IsSplit /\ Accepted
    /\ Before(Actor, "left") = 0 /\ Before(Actor, "right") = 4
    /\ Result(Actor, "left") = 2 /\ Result(Actor, "right") = 2

Input == NewState(<< >>, call.before.current,
                  Before("player1", "left"), Before("player1", "right"),
                  Before("player2", "left"), Before("player2", "right"))

\* C9: canSplitState(state, player) is true exactly when one hand of the
\* player is 0 and the other is nonzero and greater than 1.
C9_CanSplitDefinition ==
    call.op = "canSplitState" =>
        LET l == Before(call.player, "left")
            r == Before(call.player, "right")
        IN  call.ret <=> \/ (l = 0 /\ r # 0 /\ r > 1)
                         \/ (r = 0 /\ l # 0 /\ l > 1)

\* C9 witness: canSplitState answered false for a lone hand of 1
C9_Witness ==
    /\ call.op = "canSplitState"
    /\ Before(call.player, "left") = 0
    /\ Before(call.player, "right") = 1
    /\ call.ret = FALSE

\* C10: when canSplitState(state, player) is false, every split move for
\* that player is rejected, whatever left and right are, and the input
\* state is unchanged.
C10_SplitNeedsCanSplit ==
    (IsSplit /\ ~canSplitState(Input.heap, Input.value, Actor))
        => (Rejected /\ call.after = call.before)

\* C10 witness: hands (2, 1) split to (1, 2), which passes every other
\* test, was rejected
C10_Witness ==
    /\ IsSplit /\ Rejected
    /\ Before(Actor, "left") = 2 /\ Before(Actor, "right") = 1
    /\ call.move.left = 1 /\ call.move.right = 2
    /\ call.error = "Split not allowed in current state"

\* C11: an accepted split keeps the player's left + right, makes both
\* values at least 1, and leaves the other player's two counters and
\* current unchanged.
C11_SplitConservation ==
    (IsSplit /\ Accepted) =>
        /\ Result(Actor, "left") + Result(Actor, "right")
             = Before(Actor, "left") + Before(Actor, "right")
        /\ Result(Actor, "left") >= 1
        /\ Result(Actor, "right") >= 1
        /\ \A hd \in HandNames :
              Result(getOpponent(Actor), hd) = Before(getOpponent(Actor), hd)
        /\ call.result.current = call.before.current

\* C11 witness: the player not to move split (0, 3) into (1, 2)
C11_Witness ==
    /\ IsSplit /\ Accepted
    /\ Actor # call.before.current
    /\ Before(Actor, "left") = 0 /\ Before(Actor, "right") = 3
    /\ Result(Actor, "left") = 1 /\ Result(Actor, "right") = 2

\* C12: when canSplitState holds for the player, a split with left or right
\* below 1, with left or right at 5 or more, or with left + right other
\* than the player's total is rejected and leaves the state unchanged.
C12_SplitArithmeticRejected ==
    (/\ IsSplit
     /\ canSplitState(Input.heap, Input.value, Actor)
     /\ \/ call.move.left < 1
        \/ call.move.right < 1
        \/ call.move.left >= 5
        \/ call.move.right >= 5
        \/ call.move.left + call.move.right
             # Before(Actor, "left") + Before(Actor, "right"))
        => (Rejected /\ call.after = call.before)

\* C12 witness: total 3 with left = 1, right = 1 was rejected for its sum
C12_Witness ==
    /\ IsSplit /\ Rejected
    /\ Before(Actor, "left") = 3 /\ Before(Actor, "right") = 0
    /\ call.move.left = 1 /\ call.move.right = 1
    /\ call.error = "Split values must sum to the original total"

\* the list Game.getMoves(state) gave, and what it holds
Enumerated == call.op = "getMoves"
IsAttackMove(m) == m.type = "attack"
IsSplitMove(m) == m.type = "split"
AttacksListed == SelectSeq(call.ret, IsAttackMove)
SplitsListed == SelectSeq(call.ret, IsSplitMove)
Mover == call.before.current
MoverTotal == Before(Mover, "left") + Before(Mover, "right")

\* one of the mover's hands is 0 and the other is greater than 1
MoverCanSplit ==
    \/ (Before(Mover, "left") = 0 /\ Before(Mover, "right") > 1)
    \/ (Before(Mover, "right") = 0 /\ Before(Mover, "left") > 1)

\* C13: getMoves lists split moves only when canSplit holds for
\* state.current; then they are exactly (a, total - a) for a = 1..total-1
\* with both parts < 5, in ascending order of a, all for state.current; and
\* no attack in the list has a hand of count 0 as its source.
C13_SplitEnumeration ==
    Enumerated =>
        /\ ~MoverCanSplit => SplitsListed = << >>
        /\ MoverCanSplit =>
              /\ {<<m.left, m.right>> : m \in Range(SplitsListed)}
                   = {<<a, MoverTotal - a>> : a \in
                        {x \in 1..(MoverTotal - 1) :
                            x < 5 /\ MoverTotal - x < 5}}
              /\ \A i \in 1..Len(SplitsListed), j \in 1..Len(SplitsListed) :
                    i < j => SplitsListed[i].left < SplitsListed[j].left
              /\ \A m \in Range(SplitsListed) : m.player = Mover
        /\ \A m \in Range(AttacksListed) :
              Before(m.attackerPlayer, m.attackerHand) # 0

\* C13 witness: hands (3, 0) gave exactly the splits (1, 2) then (2, 1)
C13_Witness ==
    /\ Enumerated
    /\ Before(Mover, "left") = 3 /\ Before(Mover, "right") = 0
    /\ SplitsListed = << splitMove(Mover, 1, 2), splitMove(Mover, 2, 1) >>

\* the pairs <<source hand, target hand>> of the attacks listed on a player
PairsOn(target) ==
    SelectSeq(AttacksListed, LAMBDA m : m.targetPlayer = target)

Distinct(seq) == Cardinality(Range(seq)) = Len(seq)

\* C14: getMoves lists first one attack for each pair (alive hand of the
\* current player, alive hand of the opponent), then one self-attack from
\* each alive hand of the current player onto the other hand when that is
\* alive too; no attack has a source or a target of count 0, and no hand
\* attacks itself.
C14_AttackEnumeration ==
    Enumerated =>
        LET opp == PairsOn(getOpponent(Mover))
            own == PairsOn(Mover)
        IN  /\ AttacksListed = opp \o own
            /\ \A i \in 1..Len(AttacksListed) : IsAttackMove(call.ret[i])
            /\ \A m \in Range(AttacksListed) : m.attackerPlayer = Mover
            /\ Distinct(opp) /\ Distinct(own)
            /\ {<<m.attackerHand, m.targetHand>> : m \in Range(opp)}
                 = {<<f, g>> \in HandNames \X HandNames :
                       Before(Mover, f) > 0
                       /\ Before(getOpponent(Mover), g) > 0}
            /\ {<<m.attackerHand, m.targetHand>> : m \in Range(own)}
                 = {<<f, g>> \in HandNames \X HandNames :
                       f # g /\ Before(Mover, f) > 0 /\ Before(Mover, g) > 0}

\* C14 witness: with all four hands alive the list holds four attacks on
\* the opponent followed by two self-attacks
C14_Witness ==
    /\ Enumerated
    /\ Len(PairsOn(getOpponent(Mover))) = 4
    /\ Len(PairsOn(Mover)) = 2
    /\ call.ret[4].targetPlayer # Mover
    /\ call.ret[5].targetPlayer = Mover

\* C15: hasLost(state, p) is true exactly when both of p's counters are 0,
\* and isTerminal(state) is true exactly when hasLost(state, player1) or
\* hasLost(state, player2).
C15_Terminality ==
    /\ call.op = "hasLost" => (call.ret <=> LostBefore(call.player))
    /\ call.op = "isTerminal" =>
          (call.ret <=> (LostBefore("player1") \/ LostBefore("player2")))

\* C15 witness: hasLost answered false for a player with one dead hand and
\* one alive hand
C15_Witness ==
    /\ call.op = "hasLost"
    /\ Before(call.player, "left") = 0
    /\ Before(call.player, "right") > 0
    /\ call.ret = FALSE

\* C16: getWinner returns the other player when exactly one player has
\* lost, and null both when neither player has lost and when both players
\* have lost.
C16_WinnerOrNull ==
    call.op = "getWinner" =>
        call.ret = IF LostBefore("player1") /\ ~LostBefore("player2")
                       THEN "player2"
                   ELSE IF LostBefore("player2") /\ ~LostBefore("player1")
                       THEN "player1"
                   ELSE null

\* C17: in a game from createInitialState() by moves of getMoves and turn
\* switches, play continuing after a terminal state, the two players never
\* both have both counters at 0.
C17_NeverBothLost ==
    ~(hasLost(heap, state, "player1") /\ hasLost(heap, state, "player2"))

\* C17 witness: a generated move was applied in a state where a player had
\* already lost, and it changed a counter
C17_Witness ==
    /\ Listed /\ Accepted
    /\ LostBefore("player1") \/ LostBefore("player2")
    /\ call.result.hands # call.before.hands

\* the engine operations that take a state
EngineOps ==
    {"cloneState", "switchTurn", "applyMove", "getMoves", "getBoard",
     "hasLost", "isTerminal", "getWinner", "canSplitState"}

\* C18: after any engine operation (cloneState, switchTurn, applyMove with
\* an attack or a split, getMoves, getBoard, hasLost, isTerminal, getWinner,
\* canSplitState), returned or thrown, the input state has the current and
\* the four counters it had before the call.
C18_InputUnchanged ==
    call.op \in EngineOps => call.after = call.before

\* C18 witness: an accepted attack returned a state with another counter
\* and the input kept its own
C18_Witness ==
    /\ IsAttack /\ Accepted
    /\ call.result.hands # call.before.hands
    /\ call.after = call.before

\* C19: cloneState returns a state equal to the input in current and all
\* four counters, a distinct object; after cloning once and then cloning
\* the copy, a write to a counter or to current of any one of the three
\* objects changes that object and leaves the other two as they were.
C19_CloneIndependent ==
    /\ call.op = "cloneState" =>
          (call.result = call.before /\ call.ret = TRUE)
    /\ call.op = "cloneThenWrite" =>
          /\ \A i \in 1..3 : call.ret.copies[i] = call.before
          /\ call.ret.later[call.ret.written]
                # call.ret.copies[call.ret.written]
          /\ \A i \in 1..3 :
                i # call.ret.written
                    => call.ret.later[i] = call.ret.copies[i]

\* C19 witness: a counter of the first copy was written after the second
\* copy was taken from it; the original and the second copy kept theirs
C19_Witness ==
    /\ call.op = "cloneThenWrite"
    /\ call.ret.written = 2
    /\ call.ret.later[2].hands # call.before.hands
    /\ call.ret.later[1] = call.before
    /\ call.ret.later[3] = call.before

\* C20: switchTurn returns a state whose current is the other player and
\* whose four counters equal the input's, in terminal states too; applying
\* it twice yields a state equal to the original.
C20_SwitchTurn ==
    /\ call.op = "switchTurn" =>
          /\ ~call.threw
          /\ call.result.current = getOpponent(call.before.current)
          /\ call.result.hands = call.before.hands
    /\ call.op = "switchTurnTwice" =>
          /\ ~call.threw
          /\ call.ret.current = getOpponent(call.before.current)
          /\ call.result = call.before

\* C20 witness: the turn of a terminal state with player2 to move was
\* switched twice and came back to player2
C20_Witness ==
    /\ call.op = "switchTurnTwice"
    /\ LostBefore("player1")
    /\ call.before.current = "player2"
    /\ call.ret.current = "player1"
    /\ call.result = call.before

(***************************************************************************)
(* The UI controller (src/ui/script.js).  A page is the controller's       *)
(* globals: engineState (heap, state) and ui, which holds the screen shown *)
(* (menu, name entry, game), aiAgent, selectedHand, whether the hand       *)
(* buttons have their onclick handler (bound), whether the clap modal is   *)
(* open, the number of setTimeout callbacks of maybeAIMove not yet run,    *)
(* and the two history lists.  A button's disabled and hidden flags are    *)
(* those the last updateUI gave it; every handler that changes a global    *)
(* ends with updateUI, so they are read from the globals.  While the clap  *)
(* modal is open it takes the clicks; timers run at any time.  The history *)
(* lists are written by the handlers and read by the rendering only: they  *)
(* are kept where ui.logging is set, and Date.now() is left out of them.   *)
(* did is the engine call the handler made, as `call` records it.          *)
(***************************************************************************)
MaxPending == 1
MaxHistory == 4

AIModes == {"ai-random", "ai-greedy", "ai-minimax"}

Modes == AIModes \cup {"2p"}

\* selectGameMode: aiAgent = AI.randomMove, AI.greedyMove, AI.minimaxMove
AgentOf(mode) ==
    IF mode = "ai-random" THEN "randomMove"
    ELSE IF mode = "ai-greedy" THEN "greedyMove"
    ELSE IF mode = "ai-minimax" THEN "minimaxMove"
    ELSE "none"

NoEngineCall == [op |-> "ui", move |-> << >>, threw |-> FALSE]

Page == [heap |-> heap, state |-> state, ui |-> ui, did |-> NoEngineCall]

Current(pg) == getCurrentPlayer(pg.heap, pg.state)

\* move.attackerPlayer === "player1" ? player1Name : player2Name, the names
\* left as player1 and player2
nameOf(player) == IF player = "player1" THEN "player1" ELSE "player2"

\* moveToString; the text is the sequence of its parts, "" is << >>
moveToString(move) ==
    IF move = NullMove THEN << >>
    ELSE IF Prop(move, "type") = "attack"
    THEN << nameOf(Prop(move, "attackerPlayer")),
            Prop(move, "attackerHand"), "->",
            nameOf(Prop(move, "targetPlayer")), Prop(move, "targetHand") >>
    ELSE IF Prop(move, "type") = "split"
    THEN << nameOf(Prop(move, "player")), "split to",
            ToString(Prop(move, "left")), "+",
            ToString(Prop(move, "right")) >>
    ELSE << >>

\* faulty variant: the oldest of the recent moves is never dropped
pushHistoryKeepsAll(pg, move, beforeBoard, afterBoard) ==
    LET text == moveToString(move)
    IN  IF ~pg.ui.logging \/ text = << >> THEN pg
        ELSE [pg EXCEPT
                !.ui.fullHistory =
                    Append(@, [text |-> text, move |-> move,
                               before |-> beforeBoard, after |-> afterBoard]),
                !.ui.recentMoves = << text >> \o @]

pushHistory(pg, move, beforeBoard, afterBoard) ==
    LET text == moveToString(move)
        unshifted == << text >> \o pg.ui.recentMoves
    IN  IF ~pg.ui.logging \/ text = << >> THEN pg
        ELSE [pg EXCEPT
                !.ui.fullHistory =
                    Append(@, [text |-> text, move |-> move,
                               before |-> beforeBoard, after |-> afterBoard]),
                !.ui.recentMoves =
                    IF Len(unshifted) > 3
                    THEN SubSeq(unshifted, 1, Len(unshifted) - 1)
                    ELSE unshifted]

\* switchTurn of the controller: engineState = Game.switchTurn(engineState)
uiSwitchTurn(pg) ==
    LET r == switchTurn(pg.heap, pg.state)
    IN  [pg EXCEPT !.heap = r.heap, !.state = r.value]

\* if (!checkWin()) switchTurn(); checkWin takes the handlers off the hands
checkWinOrSwitch(pg) ==
    IF getWinner(pg.heap, pg.state) # null
    THEN [pg EXCEPT !.ui.bound = FALSE]
    ELSE uiSwitchTurn(pg)

maybeAIMove(pg) ==
    IF pg.ui.aiAgent = "none" THEN pg
    ELSE IF Current(pg) # "player2" THEN pg
    ELSE IF isTerminal(pg.heap, pg.state) THEN pg
    ELSE [pg EXCEPT !.ui.pending = @ + 1]

\* executeAttack, clearSelection, checkWin / switchTurn, maybeAIMove; an
\* error of applyMove ends the handler where it is thrown
attackThenPass(pg, targetPlayer, targetHand) ==
    LET move == attackMove(Current(pg), pg.ui.selectedHand,
                           targetPlayer, targetHand)
        r == applyMove(pg.heap, pg.state, move)
    IN  IF r.threw
        THEN [pg EXCEPT !.did = [op |-> "humanMove", move |-> move,
                                 threw |-> TRUE]]
        ELSE maybeAIMove(checkWinOrSwitch(
                [pushHistory([pg EXCEPT !.heap = r.heap, !.state = r.value],
                             move, getBoard(pg.heap, pg.state),
                             getBoard(r.heap, r.value))
                 EXCEPT !.ui.selectedHand = "none",
                        !.did = [op |-> "humanMove", move |-> move,
                                 threw |-> FALSE]]))

handleHandClick(pg, player, handName) ==
    IF pg.ui.aiAgent # "none" /\ Current(pg) = "player2" THEN pg
    ELSE IF player = Current(pg)
    THEN IF pg.ui.selectedHand = "none"
         THEN [pg EXCEPT !.ui.selectedHand = handName]
         ELSE IF pg.ui.selectedHand = handName
         THEN [pg EXCEPT !.ui.selectedHand = "none"]
         ELSE attackThenPass(pg, Current(pg), handName)
    ELSE IF pg.ui.selectedHand # "none"
    THEN attackThenPass(pg, player, handName)
    ELSE pg

\* updateHandUI: hand.disabled
HandDisabled(pg, player, handName) ==
    \/ pg.ui.screen # "game"
    \/ pg.ui.aiAgent # "none" /\ Current(pg) = "player2"
    \/ Count(pg.heap, pg.state, player, handName) = 0
    \/ player # Current(pg) /\ pg.ui.selectedHand = "none"

\* updateUI: the clap button is shown
ClapShown(pg) ==
    /\ pg.ui.screen = "game"
    /\ ~isTerminal(pg.heap, pg.state)
    /\ canSplitState(pg.heap, pg.state, Current(pg))

\* faulty variant: the split does not pass the turn
clapConfirmNoSwitch(pg, left, right) ==
    LET p == pg.heap[PlayerObj(pg.heap, pg.state, Current(pg))]
        total == p.left + p.right
        move == splitMove(Current(pg), left, right)
    IN  IF left < 1 \/ right < 1 \/ left + right # total
           \/ left >= 5 \/ right >= 5
        THEN pg
        ELSE LET r == applyMove(pg.heap, pg.state, move)
             IN  IF r.threw
                 THEN [pg EXCEPT !.did = [op |-> "humanMove", move |-> move,
                                          threw |-> TRUE]]
                 ELSE maybeAIMove(
                        [pushHistory([pg EXCEPT !.heap = r.heap,
                                                !.state = r.value],
                                     move, getBoard(pg.heap, pg.state),
                                     getBoard(r.heap, r.value))
                         EXCEPT !.ui.modal = FALSE,
                                !.did = [op |-> "humanMove", move |-> move,
                                         threw |-> FALSE]])

\* clapConfirm.onclick with the two numbers typed
clapConfirm(pg, left, right) ==
    LET p == pg.heap[PlayerObj(pg.heap, pg.state, Current(pg))]
        total == p.left + p.right
        move == splitMove(Current(pg), left, right)
    IN  IF left < 1 \/ right < 1 \/ left + right # total
           \/ left >= 5 \/ right >= 5
        THEN pg
        ELSE LET r == applyMove(pg.heap, pg.state, move)
             IN  IF r.threw
                 THEN [pg EXCEPT !.did = [op |-> "humanMove", move |-> move,
                                          threw |-> TRUE]]
                 ELSE maybeAIMove(uiSwitchTurn(
                        [pushHistory([pg EXCEPT !.heap = r.heap,
                                                !.state = r.value],
                                     move, getBoard(pg.heap, pg.state),
                                     getBoard(r.heap, r.value))
                         EXCEPT !.ui.modal = FALSE,
                                !.did = [op |-> "humanMove", move |-> move,
                                         threw |-> FALSE]]))

resetGame(pg) ==
    LET r == createInitialState(pg.heap)
    IN  [pg EXCEPT !.heap = r.heap, !.state = r.value,
                   !.ui.selectedHand = "none", !.ui.bound = TRUE,
                   !.ui.recentMoves = << >>, !.ui.fullHistory = << >>,
                   !.did = [op |-> "reset", move |-> << >>, threw |-> FALSE]]

backToMenu(pg) == resetGame([pg EXCEPT !.ui.screen = "menu"])

selectGameMode(pg, mode) ==
    [pg EXCEPT !.ui.aiAgent = AgentOf(mode), !.ui.screen = "names",
               !.ui.recentMoves = << >>, !.ui.fullHistory = << >>,
               !.did = [op |-> "select", move |-> << >>, threw |-> FALSE]]

\* faulty variant: the turn is kept when the move of the AI throws
aiCallbackKeepsTurn(pg, move) ==
    IF move = NullMove
    THEN [pg EXCEPT !.did = [op |-> "aiPass", move |-> << >>,
                             threw |-> FALSE]]
    ELSE LET r == applyMove(pg.heap, pg.state, move)
         IN  IF r.threw
             THEN [pg EXCEPT !.did = [op |-> "aiMove", move |-> move,
                                      threw |-> TRUE]]
             ELSE checkWinOrSwitch(
                    [pushHistory([pg EXCEPT !.heap = r.heap,
                                            !.state = r.value],
                                 move, getBoard(pg.heap, pg.state),
                                 getBoard(r.heap, r.value))
                     EXCEPT !.did = [op |-> "aiMove", move |-> move,
                                     threw |-> FALSE]])

\* the callback of maybeAIMove's setTimeout, move being aiAgent(engineState)
aiCallback(pg, move) ==
    IF move = NullMove
    THEN [pg EXCEPT !.did = [op |-> "aiPass", move |-> << >>,
                             threw |-> FALSE]]
    ELSE LET r == applyMove(pg.heap, pg.state, move)
         IN  IF r.threw
             THEN uiSwitchTurn([pg EXCEPT !.did = [op |-> "aiMove",
                                                   move |-> move,
                                                   threw |-> TRUE]])
             ELSE checkWinOrSwitch(
                    [pushHistory([pg EXCEPT !.heap = r.heap,
                                            !.state = r.value],
                                 move, getBoard(pg.heap, pg.state),
                                 getBoard(r.heap, r.value))
                     EXCEPT !.did = [op |-> "aiMove", move |-> move,
                                     threw |-> FALSE]])

\* the globals after a handler
Becomes(pg) ==
    LET kept == Collect(pg.heap, pg.state)
    IN  /\ pg.ui.pending <= MaxPending
        /\ Len(pg.ui.fullHistory) <= MaxHistory
        /\ heap' = kept.heap
        /\ state' = kept.value
        /\ ui' = pg.ui
        /\ call' = [NoCall(kept.heap, kept.value) EXCEPT
                        !.op = pg.did.op, !.move = pg.did.move,
                        !.threw = pg.did.threw,
                        !.player = getCurrentPlayer(heap, state),
                        !.before = View(heap, state),
                        !.result = View(kept.heap, kept.value)]

\* the page once loaded: initializeGame
Loaded(logging) ==
    LET r == createInitialState(<< >>)
    IN  /\ heap = r.heap
        /\ state = r.value
        /\ call = NoCall(r.heap, r.value)
        /\ ui = [screen |-> "menu", aiAgent |-> "none",
                 selectedHand |-> "none", bound |-> TRUE, modal |-> FALSE,
                 pending |-> 0, logging |-> logging,
                 fullHistory |-> << >>, recentMoves |-> << >>]

InitUI == Loaded(FALSE)

SelectGameMode ==
    /\ ui.screen = "menu"
    /\ \E mode \in Modes : Becomes(selectGameMode(Page, mode))

NamesBack ==
    /\ ui.screen = "names"
    /\ Becomes([Page EXCEPT !.ui.screen = "menu"])

StartGame ==
    /\ ui.screen = "names"
    /\ Becomes([Page EXCEPT !.ui.screen = "game"])

ClickHand ==
    /\ ui.screen = "game" /\ ~ui.modal /\ ui.bound
    /\ \E player \in PlayerNames, handName \in HandNames :
          /\ ~HandDisabled(Page, player, handName)
          /\ Becomes(handleHandClick(Page, player, handName))

OpenClap ==
    /\ ClapShown(Page) /\ ~ui.modal
    /\ Becomes([Page EXCEPT !.ui.modal = TRUE])

ClapConfirm ==
    /\ ui.modal
    /\ \E left \in 0..MaxSplitVal, right \in 0..MaxSplitVal :
          Becomes(clapConfirm(Page, left, right))

ClapCancel ==
    /\ ui.modal
    /\ Becomes([Page EXCEPT !.ui.modal = FALSE])

Reset ==
    /\ ui.screen = "game" /\ ~ui.modal
    /\ Becomes(resetGame(Page))

Menu ==
    /\ ui.screen = "game" /\ ~ui.modal
    /\ Becomes(backToMenu(Page))

\* a timer of maybeAIMove runs out
Fired == [Page EXCEPT !.ui.pending = @ - 1]

AIRandom ==
    /\ ui.pending > 0 /\ ui.aiAgent = "randomMove"
    /\ LET n == Len(getMoves(heap, state))
       IN  \E pick \in 0..(IF n = 0 THEN 0 ELSE n - 1) :
              Becomes(aiCallback(Fired, randomMove(heap, state, pick)))

AIGreedy ==
    /\ ui.pending > 0 /\ ui.aiAgent = "greedyMove"
    /\ LET moves == getMoves(heap, state)
           scores == scoresOf(heap, state, moves)
       IN  \E move \in {greedyChoice(moves, scores, coins) :
                            coins \in [1..Len(moves) -> BOOLEAN]} :
              Becomes(aiCallback(Fired, move))

\* minimaxMove and the other stubs return null
AIStub ==
    /\ ui.pending > 0 /\ ui.aiAgent = "minimaxMove"
    /\ Becomes(aiCallback(Fired, NullMove))

\* aiAgent is null (two-player mode chosen since the timer was set): the
\* callback throws a TypeError at aiAgent(engineState)
AINone ==
    /\ ui.pending > 0 /\ ui.aiAgent = "none"
    /\ Becomes([Fired EXCEPT !.did = [op |-> "aiPass", move |-> << >>,
                                      threw |-> TRUE]])

NextUI ==
    \/ SelectGameMode \/ NamesBack \/ StartGame
    \/ ClickHand \/ OpenClap \/ ClapConfirm \/ ClapCancel
    \/ Reset \/ Menu
    \/ AIRandom \/ AIGreedy \/ AIStub \/ AINone

SpecUI == InitUI /\ [][NextUI]_vars

\* C21: applyMove rejects a missing move (null), a move without a type and
\* a move whose type is neither "attack" nor "split": it throws, returns no
\* state, and leaves the input state unchanged.
C21_InvalidShapeRejected ==
    (/\ Applied
     /\ \/ call.move = NullMove
        \/ Prop(call.move, "type") \notin {"attack", "split"})
        => (Rejected /\ call.after = call.before)

\* C21 witness: a move of type "unknown" was rejected as such
C21_Witness ==
    /\ Applied
    /\ Prop(call.move, "type") = "unknown"
    /\ Rejected
    /\ call.error = "Unknown move type"

\* what a call gave: thrown or not, the error, the state returned
Outcome(r) ==
    [threw |-> r.threw, error |-> r.error,
     result |-> IF r.threw THEN NoState ELSE View(r.heap, r.value)]

CallOutcome ==
    [threw |-> call.threw, error |-> call.error, result |-> call.result]

\* the last call left the acting player out: applyMove of an attack
\* without attackerPlayer or of a split without player, or a wrapper
Defaulted ==
    \/ IsAttack /\ "attackerPlayer" \notin DOMAIN call.move
    \/ IsSplit /\ "player" \notin DOMAIN call.move
    \/ call.op \in {"attack", "split"}

\* the move of a defaulted call with state.current written in
WithCurrent ==
    IF call.move.type = "attack"
    THEN attackMove(call.before.current, Prop(call.move, "attackerHand"),
                    Prop(call.move, "targetPlayer"),
                    Prop(call.move, "targetHand"))
    ELSE splitMove(call.before.current, call.move.left, call.move.right)

\* C22: an attack without attackerPlayer and a split without player give
\* the same outcome (same returned state, or same rejection) as the same
\* move with the acting player set to state.current; Game.attack and
\* Game.split give that outcome too.
C22_ActingPlayerDefault ==
    Defaulted =>
        /\ CallOutcome = Outcome(applyMove(Input.heap, Input.value, WithCurrent))
        /\ call.op \in {"attack", "split"} =>
              CallOutcome = Outcome(applyMove(Input.heap, Input.value, call.move))
        /\ call.after = call.before

\* C22 witness: with player2 to move, Game.attack was accepted and changed
\* a hand of player1
C22_Witness ==
    /\ call.op = "attack"
    /\ call.before.current = "player2"
    /\ ~call.threw
    /\ call.move.targetPlayer = "player1"
    /\ call.result.hands["player1"] # call.before.hands["player1"]

\* C23: createInitialState() always returns the state with current =
\* player1 and all four counters equal to 1; that state is not terminal and
\* has no winner.
C23_InitialState ==
    call.op = "createInitialState" =>
        /\ ~call.threw
        /\ call.result.current = "player1"
        /\ \A p \in PlayerNames, hd \in HandNames : Result(p, hd) = 1
        /\ call.ret.terminal = FALSE
        /\ call.ret.winner = null

\* C23 witness: a new game was started from a finished one with player2
\* to move
C23_Witness ==
    /\ call.op = "createInitialState"
    /\ LostBefore("player1")
    /\ call.before.current = "player2"
    /\ call.result.current = "player1"
    /\ Result("player1", "left") = 1

Sum(v) ==
    v.hands["player1"]["left"] + v.hands["player1"]["right"]
    + v.hands["player2"]["left"] + v.hands["player2"]["right"]

\* C24: after an accepted attack (self-attacks included) the sum of the
\* four counters is the sum before, minus the target hand's old value, plus
\* its new value, which is 0 if target + attacker >= 5 and target +
\* attacker otherwise.
C24_AttackSum ==
    (IsAttack /\ Accepted) =>
        LET new == IF TargetCount + AttackerCount >= 5
                   THEN 0 ELSE TargetCount + AttackerCount
        IN  /\ Result(call.move.targetPlayer, call.move.targetHand) = new
            /\ Sum(call.result) = Sum(call.before) - TargetCount + new

\* C24 witness: a hand of 3 attacked the same player's hand of 3; the sum
\* of the four counters fell by 3
C24_Witness ==
    /\ IsAttack /\ Accepted
    /\ call.move.targetPlayer = Actor
    /\ call.move.targetHand # call.move.attackerHand
    /\ AttackerCount = 3 /\ TargetCount = 3
    /\ Sum(call.result) = Sum(call.before) - 3

\* C25 as stated: getBoard returns a record with the fields current,
\* player1 and player2; current is state.current, player1 and player2 are
\* the pairs [left, right] of the player's counters.
C25_BoardFields ==
    call.op = "getBoard" =>
        /\ DOMAIN call.ret = {"current", "player1", "player2"}
        /\ call.ret.current = call.before.current
        /\ \A p \in PlayerNames :
              call.ret[p] = << Before(p, "left"), Before(p, "right") >>

\* C25 amended: getBoard returns a record with the fields current, p1 and
\* p2; current is state.current, p1 is the pair [left, right] of player1's
\* counters and p2 that of player2's (slot 0 is left, slot 1 is right).
C25_BoardFieldsShort ==
    call.op = "getBoard" =>
        /\ DOMAIN call.ret = {"current", "p1", "p2"}
        /\ call.ret.current = call.before.current
        /\ call.ret.p1 = << Before("player1", "left"), Before("player1", "right") >>
        /\ call.ret.p2 = << Before("player2", "left"), Before("player2", "right") >>

\* C25 witness: a board read with four different counters
C25_Witness ==
    /\ call.op = "getBoard"
    /\ call.ret.p1 = << 1, 2 >>
    /\ call.ret.p2 = << 3, 4 >>
    /\ call.ret.current = "player2"

ByStrategy == call.op \in {"randomMove", "greedyMove"}

\* C26: AI.randomMove(state) and AI.greedyMove(state) return null exactly
\* when getMoves(state) is empty, and otherwise an element of
\* getMoves(state), which applyMove accepts; for every outcome of the
\* random choices.
C26_StrategyMoveLegal ==
    ByStrategy =>
        /\ call.ret = NullMove <=> call.moves = << >>
        /\ call.ret # NullMove =>
              /\ call.ret \in Range(call.moves)
              /\ ~applyMove(Input.heap, Input.value, call.ret).threw
        /\ call.after = call.before

\* C26 witness: with six moves to choose from, randomMove returned the
\* last one
C26_Witness ==
    /\ call.op = "randomMove"
    /\ Len(call.moves) = 6
    /\ call.ret = call.moves[6]

\* the move wins at once for the player to move
Wins(m) ==
    LET r == applyMove(Input.heap, Input.value, m)
    IN  ~r.threw /\ getWinner(r.heap, r.value) = call.before.current

\* C27: in every state where some move m of getMoves(state) makes
\* getWinner(applyMove(state, m)) equal to state.current, AI.greedyMove
\* returns a move with that property, for every outcome of the random
\* tie-breaks.
C27_GreedyTakesWin ==
    (call.op = "greedyMove" /\ \E m \in Range(call.moves) : Wins(m))
        => (call.ret # NullMove /\ Wins(call.ret))

\* C27 witness: player1 with (4, 1) against (0, 1) took the last hand of
\* player2, which is not the first move of the list
C27_Witness ==
    /\ call.op = "greedyMove"
    /\ call.before.current = "player1"
    /\ Before("player1", "left") = 4 /\ Before("player1", "right") = 1
    /\ Before("player2", "left") = 0 /\ Before("player2", "right") = 1
    /\ call.ret = attackMove("player1", "left", "player2", "right")
    /\ ~Wins(call.moves[2])

\* C28: in every state where neither player has lost, getMoves(state) holds
\* at least one move; in every state where the current player has lost
\* (both hands 0), getMoves(state) is empty.
C28_NoStalemate ==
    Enumerated =>
        /\ (~LostBefore("player1") /\ ~LostBefore("player2"))
              => call.ret # << >>
        /\ LostBefore(Mover) => call.ret = << >>

\* C28 witness: the player to move has a single hand of 1, which can
\* neither split nor attack itself, and one move: the attack on the
\* opponent's only hand
C28_Witness ==
    /\ Enumerated
    /\ Before(Mover, "left") = 1 /\ Before(Mover, "right") = 0
    /\ Before(getOpponent(Mover), "left") = 0
    /\ Before(getOpponent(Mover), "right") = 4
    /\ Len(call.ret) = 1

\* the state the last call returned, as an object store holding it alone
Output ==
    NewState(<< >>, call.result.current,
             Result("player1", "left"), Result("player1", "right"),
             Result("player2", "left"), Result("player2", "right"))

TerminalBefore == LostBefore("player1") \/ LostBefore("player2")

\* C29: after a move of getMoves(state) the player who moved has at least
\* one nonzero hand; so after such a move from a non-terminal state
\* getWinner is null or the player who moved, and a self-attack or a split
\* does not turn a non-terminal state into a terminal one.
C29_MoverSurvives ==
    (Listed /\ Accepted) =>
        /\ Result(Mover, "left") # 0 \/ Result(Mover, "right") # 0
        /\ ~TerminalBefore =>
              /\ getWinner(Output.heap, Output.value) \in {null, Mover}
              /\ (IsSplit \/ call.move.targetPlayer = Mover)
                    => ~isTerminal(Output.heap, Output.value)

\* C29 witness: in a non-terminal state a hand of 4 attacked the mover's
\* own hand of 1 and killed it; the mover plays on with the hand of 4
C29_Witness ==
    /\ Listed /\ Accepted /\ IsAttack
    /\ ~TerminalBefore
    /\ call.move.targetPlayer = Mover
    /\ AttackerCount = 4 /\ TargetCount = 1
    /\ Result(Mover, call.move.targetHand) = 0
    /\ Result(Mover, call.move.attackerHand) = 4
    /\ getWinner(Output.heap, Output.value) = null

\* C30: in an AI game mode, whenever a delayed AI callback computes and
\* applies a move, engineState.current is player2 and engineState is not
\* terminal at that moment.
C30_AIOnOwnTurn ==
    call.op = "aiMove" =>
        (call.before.current = "player2" /\ ~TerminalBefore)

(***************************************************************************)
(* The inline model of the mechanics test suite and the legacy script:     *)
(* a board is the record of the four counters, without a turn.             *)
(***************************************************************************)
\* faulty variant: a hand of exactly five stays
inlineAttackAbove(hands, attackerPlayer, attackerHand, targetPlayer, targetHand) ==
    LET attackerVal == hands[attackerPlayer][attackerHand]
        newVal == hands[targetPlayer][targetHand] + attackerVal
    IN  [hands EXCEPT ![targetPlayer][targetHand] =
                          IF newVal > 5 THEN 0 ELSE newVal]

\* attack of the test suite
inlineAttack(hands, attackerPlayer, attackerHand, targetPlayer, targetHand) ==
    LET attackerVal == hands[attackerPlayer][attackerHand]
        newVal == hands[targetPlayer][targetHand] + attackerVal
    IN  [hands EXCEPT ![targetPlayer][targetHand] =
                          IF newVal >= 5 THEN 0 ELSE newVal]

\* executeAttack of the legacy script
legacyExecuteAttack(hands, attackerPlayer, attackerHand, targetPlayer, targetHand) ==
    LET attackerVal == hands[attackerPlayer][attackerHand]
        newVal == hands[targetPlayer][targetHand] + attackerVal
    IN  [hands EXCEPT ![targetPlayer][targetHand] =
                          IF newVal >= 5 THEN 0 ELSE newVal]

\* hasLost of the test suite
inlineHasLost(hands, player) ==
    hands[player].left = 0 /\ hands[player].right = 0

\* C38: for every state with counters 0..4 and every attack the engine
\* accepts, the inline attack of the test suite and executeAttack of the
\* legacy script give the four counters Game.applyMove gives, and the inline
\* hasLost answers as Game.hasLost does on every state.
C38_InlineModelAgrees ==
    /\ (IsAttack /\ Accepted) =>
          /\ inlineAttack(call.before.hands, Actor, call.move.attackerHand,
                          call.move.targetPlayer, call.move.targetHand)
                = call.result.hands
          /\ legacyExecuteAttack(call.before.hands, Actor,
                                 call.move.attackerHand,
                                 call.move.targetPlayer, call.move.targetHand)
                = call.result.hands
    /\ call.op = "hasLost" =>
          (inlineHasLost(call.before.hands, call.player) <=> call.ret)

C38_Witness ==
    /\ IsAttack /\ Accepted
    /\ Actor = "player2" /\ call.move.targetPlayer = "player1"
    /\ AttackerCount = 1 /\ TargetCount = 4
    /\ call.result.hands["player1"][call.move.targetHand] = 0
    /\ inlineAttack(call.before.hands, Actor, call.move.attackerHand,
                    call.move.targetPlayer, call.move.targetHand)
          = call.result.hands

(***************************************************************************)
(* The headless loop of TECHNICAL.md:                                      *)
(*   let s = Game.createInitialState();                                    *)
(*   while (!Game.isTerminal(s)) {                                         *)
(*     const mv = AI.greedyMove(s) || AI.randomMove(s);                    *)
(*     if (!mv) break;                                                     *)
(*     s = Game.applyMove(s, mv);  s = Game.switchTurn(s);  }              *)
(*   console.log('Winner:', Game.getWinner(s));                            *)
(* call.op tells where the loop is: "loopStep" after a pass of the body,   *)
(* "loopBreak" after the break, "loopThrow" after an error of applyMove,   *)
(* "loopExit" after the loop, call.ret then being Game.getWinner(s).       *)
(***************************************************************************)
LoopRunning == call.op \in {"none", "loopStep"}

\* faulty variant: the turn is not passed after the move
loopBodyNoSwitch(h, s, mv) ==
    IF mv = NullMove
    THEN [op |-> "loopBreak", heap |-> h, value |-> s]
    ELSE LET r == applyMove(h, s, mv)
         IN  IF r.threw
             THEN [op |-> "loopThrow", heap |-> r.heap, value |-> s]
             ELSE [op |-> "loopStep", heap |-> r.heap, value |-> r.value]

\* one pass of the body with mv chosen
loopBody(h, s, mv) ==
    IF mv = NullMove
    THEN [op |-> "loopBreak", heap |-> h, value |-> s]
    ELSE LET r == applyMove(h, s, mv)
         IN  IF r.threw
             THEN [op |-> "loopThrow", heap |-> r.heap, value |-> s]
             ELSE LET t == switchTurn(r.heap, r.value)
                  IN  [op |-> "loopStep", heap |-> t.heap, value |-> t.value]

LoopTo(op, mv, h, s, ret) ==
    LET kept == Collect(h, s)
    IN  /\ heap' = kept.heap
        /\ state' = kept.value
        /\ call' = [NoCall(kept.heap, kept.value) EXCEPT
                        !.op = op, !.move = mv,
                        !.player = getCurrentPlayer(heap, state),
                        !.before = View(heap, state),
                        !.threw = (op = "loopThrow"),
                        !.result = View(kept.heap, kept.value),
                        !.ret = ret]
        /\ UNCHANGED ui

\* AI.greedyMove(s) || AI.randomMove(s)
LoopMoves ==
    LET moves == getMoves(heap, state)
        scores == scoresOf(heap, state, moves)
        n == Len(moves)
    IN  {IF greedyChoice(moves, scores, coins) # NullMove
         THEN greedyChoice(moves, scores, coins)
         ELSE randomMove(heap, state, pick) :
            coins \in [1..n -> BOOLEAN],
            pick \in 0..(IF n = 0 THEN 0 ELSE n - 1)}

LoopStep ==
    /\ LoopRunning
    /\ ~isTerminal(heap, state)
    /\ \E mv \in LoopMoves :
          LET b == loopBody(heap, state, mv)
          IN  LoopTo(b.op, IF mv = NullMove THEN << >> ELSE mv,
                     b.heap, b.value, FALSE)

LoopExit ==
    /\ LoopRunning
    /\ isTerminal(heap, state)
    /\ LoopTo("loopExit", << >>, heap, state, getWinner(heap, state))

NextLoop == LoopStep \/ LoopExit

SpecLoop == Init /\ [][NextLoop]_vars

\* C37: the headless loop never takes its no-move exit (nor stops on an
\* error), so when it is left the state is terminal, getWinner is not null
\* and the winner is the player who made the last move, the opponent of the
\* final state's current.
C37_LoopEndsWithWinner ==
    /\ call.op \notin {"loopBreak", "loopThrow"}
    /\ call.op = "loopExit" =>
          /\ isTerminal(heap, state)
          /\ call.ret # null
          /\ call.ret = getWinner(heap, state)
          /\ call.ret = getOpponent(getCurrentPlayer(heap, state))
          /\ hasLost(heap, state, getCurrentPlayer(heap, state))

C37_Witness ==
    /\ call.op = "loopExit"
    /\ call.ret = "player2"
    /\ getCurrentPlayer(heap, state) = "player1"

(***************************************************************************)
(* Vocabulary of the UI properties: the last handler, read from `call`.    *)
(***************************************************************************)
\* the clap-confirm handler passed its split to Game.applyMove
ClapSubmitted ==
    call.op = "humanMove" /\ Prop(call.move, "type") = "split"

\* C35: every split the clap-confirm handler passes to Game.applyMove is
\* accepted by the engine in the state at that moment.
C35_ClapSplitAccepted == ClapSubmitted => ~call.threw

\* the game is over: the engine state is terminal and checkWin has reported
\* the winner (it takes the handlers off the hand buttons)
GameOverShown == isTerminal(heap, state) /\ ~ui.bound

\* the step is resetGame (the Reset button, or the way back to the menu)
ResetStep == call'.op = "reset"

\* C32: once a move has made the engine state terminal and checkWin has
\* reported the winner, the turn is not passed for that move, and no later
\* hand click, clap confirmation or AI callback changes the counters or
\* current until resetGame is invoked.
C32_GameOverStable ==
    [][/\ (call'.op \in {"humanMove", "aiMove"} /\ ~call'.threw
                /\ ~isTerminal(heap, state) /\ isTerminal(heap', state')
                /\ Prop(call'.move, "type") = "attack")
            => View(heap', state').current = View(heap, state).current
       /\ (GameOverShown /\ ~ResetStep)
            => View(heap', state') = View(heap, state)]_vars

\* The page of a user who picks the minimax placeholder or two-player mode.
\* The browser runs every setTimeout callback whose delay has passed.
SelectStubOr2P ==
    /\ ui.screen = "menu"
    /\ \E mode \in {"ai-minimax", "2p"} : Becomes(selectGameMode(Page, mode))

NextUILive ==
    \/ SelectStubOr2P \/ NamesBack \/ StartGame
    \/ ClickHand \/ OpenClap \/ ClapConfirm \/ ClapCancel
    \/ Reset \/ Menu
    \/ AIStub \/ AINone

SpecUILive == InitUI /\ [][NextUILive]_vars /\ WF_vars(AIStub \/ AINone)

\* a human move has just left the turn with the AI in a game not over
AITurnBegun ==
    /\ call.op = "humanMove" /\ ~call.threw
    /\ ui.screen = "game" /\ ui.aiAgent # "none"
    /\ getCurrentPlayer(heap, state) = "player2"
    /\ ~isTerminal(heap, state)

\* C31: in every AI mode, whenever a human move leaves a non-terminal state
\* with player2 to move, then, the timers running out, the game reaches a
\* state where player1 is to move or the game is over.
C31_AITurnEnds ==
    AITurnBegun ~>
        (getCurrentPlayer(heap, state) = "player1" \/ isTerminal(heap, state))

\* The page of two users who pick two-player mode.
Select2P ==
    /\ ui.screen = "menu"
    /\ Becomes(selectGameMode(Page, "2p"))

Next2P ==
    \/ Select2P \/ NamesBack \/ StartGame
    \/ ClickHand \/ OpenClap \/ ClapConfirm \/ ClapCancel
    \/ Reset \/ Menu

Spec2P == InitUI /\ [][Next2P]_vars

\* the player a move of the UI acts for
MoveActor(move) ==
    IF Prop(move, "type") = "attack" THEN move.attackerPlayer ELSE move.player

\* C33: in two-player mode every accepted human move (attack on the
\* opponent, self-attack or split) is made by the player whose turn it is and,
\* when it leaves the state non-terminal, passes the turn exactly once; no
\* other step changes the turn except resetGame, which gives it to player1:
\* the players of successive moves alternate, starting with player1.
C33_TurnsAlternate ==
    [][ui.aiAgent = "none" =>
        /\ (call'.op = "humanMove" /\ ~call'.threw) =>
              /\ MoveActor(call'.move) = getCurrentPlayer(heap, state)
              /\ getCurrentPlayer(heap', state') =
                    IF isTerminal(heap', state')
                    THEN getCurrentPlayer(heap, state)
                    ELSE getOpponent(getCurrentPlayer(heap, state))
        /\ call'.op = "reset" =>
              getCurrentPlayer(heap', state') = "player1"
        /\ (call'.op \notin {"humanMove", "reset"} \/ call'.threw) =>
              View(heap', state') = View(heap, state)]_vars

C33_Witness ==
    /\ ui.aiAgent = "none" /\ ui.screen = "game"
    /\ call.op = "humanMove" /\ ~call.threw
    /\ Prop(call.move, "type") = "split"
    /\ call.move.player = "player2"
    /\ call.before.current = "player2"
    /\ getCurrentPlayer(heap, state) = "player1"
    /\ ~isTerminal(heap, state)

(***************************************************************************)
(* The callback of maybeAIMove with any strategy plugged in as aiAgent     *)
(* (AI.customMove and the other placeholders are to be written by the      *)
(* user): the strategy's answer is any move object or null, the engine     *)
(* state any state with counters 0..4.  One callback per behaviour.        *)
(***************************************************************************)
InitCallback ==
    \E cur \in PlayerNames, l1 \in Counters, r1 \in Counters,
       l2 \in Counters, r2 \in Counters :
        LET r == NewState(<< >>, cur, l1, r1, l2, r2)
        IN  /\ heap = r.heap
            /\ state = r.value
            /\ call = NoCall(r.heap, r.value)
            /\ ui = [screen |-> "game", aiAgent |-> "customMove",
                     selectedHand |-> "none", bound |-> TRUE,
                     modal |-> FALSE, pending |-> 1, logging |-> TRUE,
                     fullHistory |-> << >>, recentMoves |-> << >>]

\* what a strategy may answer: a move of one of the two documented shapes,
\* legal or not, or null, {} or a move of unknown type
StrategyAnswers ==
    {attackMove(ap, ah, tp, th) :
        ap \in PlayerNames, ah \in OfferedHands,
        tp \in PlayerNames, th \in OfferedHands}
    \cup {splitMove(p, l, r) :
        p \in PlayerNames, l \in SplitVals, r \in SplitVals}
    \cup MalformedMoves

AICustom ==
    /\ Fresh
    /\ ui.pending > 0 /\ ui.aiAgent = "customMove"
    /\ \E move \in StrategyAnswers : Becomes(aiCallback(Fired, move))

NextCallback == AICustom

SpecCallback == InitCallback /\ [][NextCallback]_vars

\* C34: when applyMove throws for the move the strategy produced inside the
\* AI callback, the four counters are as before, no history entry is
\* recorded for the move, and the turn is with the other player.
C34_AIFailureFallback ==
    (call.op = "aiMove" /\ call.threw) =>
        /\ call.result.hands = call.before.hands
        /\ call.result.current = getOpponent(call.before.current)
        /\ ui.fullHistory = << >> /\ ui.recentMoves = << >>

C34_Witness ==
    /\ call.op = "aiMove" /\ call.threw
    /\ Prop(call.move, "type") = "attack"
    /\ call.before.current = "player2"
    /\ call.move.attackerPlayer = "player2"
    /\ call.before.hands["player2"][call.move.attackerHand] = 0
    /\ getCurrentPlayer(heap, state) = "player1"
    /\ ui.pending = 0

\* The page with its two history lists kept: two-player mode, and every mode.
SpecHist == Loaded(TRUE) /\ [][Next2P]_vars

SpecHistAI == Loaded(TRUE) /\ [][NextUI]_vars

\* the board Game.getBoard gives for a view of the state
BoardOf(v) ==
    [current |-> v.current,
     p1 |-> << v.hands["player1"]["left"], v.hands["player1"]["right"] >>,
     p2 |-> << v.hands["player2"]["left"], v.hands["player2"]["right"] >>]

\* recentMoves is the texts of the last min(3, n) records, most recent first
RecentIsTail(u) ==
    LET n == Len(u.fullHistory)
    IN  /\ Len(u.recentMoves) = (IF n < 3 THEN n ELSE 3)
        /\ \A i \in 1..Len(u.recentMoves) :
              u.recentMoves[i] = u.fullHistory[n + 1 - i].text

\* C36: every move applied appends exactly one record to fullHistory, with
\* the move and the boards before and after it; resetGame and
\* selectGameMode empty both lists and no other step changes fullHistory;
\* recentMoves has at most 3 entries, those of the last min(3, n) records of
\* fullHistory, most recent first.
C36_HistoryBookkeeping ==
    [][/\ (call'.op \in {"humanMove", "aiMove"} /\ ~call'.threw) =>
              /\ Len(ui'.fullHistory) = Len(ui.fullHistory) + 1
              /\ SubSeq(ui'.fullHistory, 1, Len(ui.fullHistory))
                    = ui.fullHistory
              /\ LET rec == ui'.fullHistory[Len(ui'.fullHistory)]
                 IN  /\ rec.move = call'.move
                     /\ rec.text = moveToString(call'.move)
                     /\ rec.before = BoardOf(View(heap, state))
                     /\ rec.after =
                           BoardOf([View(heap', state') EXCEPT
                                      !.current = View(heap, state).current])
       /\ call'.op \in {"reset", "select"} =>
              ui'.fullHistory = << >> /\ ui'.recentMoves = << >>
       /\ (call'.op \notin {"humanMove", "aiMove", "reset", "select"}
                \/ call'.threw) =>
              ui'.fullHistory = ui.fullHistory
       /\ Len(ui'.recentMoves) <= 3
       /\ RecentIsTail(ui')]_vars

C36_Witness ==
    /\ ui.logging
    /\ call.op = "humanMove" /\ ~call.threw
    /\ Prop(call.move, "type") = "attack"
    /\ call.move.attackerPlayer = "player2"
    /\ call.move.targetPlayer = "player2"
    /\ Len(ui.fullHistory) = 4
    /\ Len(ui.recentMoves) = 3
    /\ ui.recentMoves[1] = moveToString(call.move)
    /\ ui.recentMoves[3] = ui.fullHistory[2].text
    /\ ui.fullHistory[4].before = BoardOf(call.before)

====
